---- MODULE Spec2Model ----
(***************************************************************************)
(* Pedersen DKG with Schnorr proofs of knowledge (nucypher/crypto/dkg.py)  *)
(* and the modified two-of-two Shamir split (nucypher/crypto/two_party.py).*)
(*                                                                         *)
(* The curve library (umbral) is external.  Its group is modelled as the   *)
(* cyclic group of prime order Order: a CurveBN is an integer mod Order, a *)
(* Point is an element of the additive group Z_Order, and the generator is *)
(* a fixed non-identity element.  hash_to_curvebn is a lazily sampled,     *)
(* collision-free random oracle.                                           *)
(***************************************************************************)
EXTENDS Integers, Sequences, FiniteSets, TLC

\* ------------------------------------------------------------------ state
VARIABLES
    ceremony,             \* what the gen_pederson_shares call sampled and returned
    oracle,               \* hash_to_curvebn: the values held by proofs
    last,                 \* the last call and its outcome
    commitment_verified,  \* verify_pederson_commitment has returned True for ceremony
    cross,                \* a commitment of one ceremony, the shares of another
    two_party,            \* a two-party split: secret, both elements, reassembly
    wire,                 \* an object, its bytes, and the object read back
    poly,                 \* a polynomial and what commitment() made of it
    pair,                 \* two ceremonies under way at the same time
    the_keyring           \* a Keyring, how it was constructed, the calls made on it

\* ------------------------------------------------------------------ bounds
MaxT == 2       \* largest threshold t passed to gen_pederson_shares
MaxN == 2       \* largest participant count n
MaxRand == 2    \* CurveBN.gen_rand draws from 1..MaxRand
MaxCalls == 3   \* calls made on one Keyring
MaxFiles == 2   \* keyring file names, and power sets, to choose from
MaxExtra == 1   \* a received buffer is at most this much longer than an encoding

\* --------------------------------------------------- scaled curve constants
Order == 5          \* order of the curve group (prime)
ByteRange == 4      \* a byte takes the values 0..ByteRange-1
CURVE_BN_SIZE == 2  \* width of an encoded CurveBN, in bytes
LENGTH_BYTES == 2   \* width of a VariableLengthBytestring length header

\* ------------------------------------------------------------ value types
\* Every Python value is a record [type, v]; v is always an integer.
BN(x) == [type |-> "CurveBN", v |-> x]
PT(x) == [type |-> "Point", v |-> x]
None == [type |-> "None", v |-> 0]
True == [type |-> "bool", v |-> 1]
Raise(kind) == [type |-> kind, v |-> 0]

IsBN(a) == a.type = "CurveBN"
IsPT(a) == a.type = "Point"
IsError(a) ==
    a.type \in {"Exception", "ValueError", "TypeError", "IndexError",
                "Locked", "Unlocked", "NoKeyringFile", "FileNotFoundError",
                "KeyError", "AttributeError"}

\* An operand that already is an error propagates; otherwise the operands
\* have types the operator does not accept.
BadOperands(a, b) ==
    IF IsError(a) THEN a ELSE IF IsError(b) THEN b ELSE Raise("TypeError")

\* --------------------------------------------------------- group arithmetic
\* CurveBN.gen_rand(): a uniformly random nonzero scalar.
gen_rand == {BN(x) : x \in 1..MaxRand}

\* Point.get_generator_from_curve()
get_generator_from_curve == PT(2)

\* a + b : CurveBN.__add__ / Point.__add__
Add(a, b) ==
    IF IsBN(a) /\ IsBN(b) THEN BN((a.v + b.v) % Order)
    ELSE IF IsPT(a) /\ IsPT(b) THEN PT((a.v + b.v) % Order)
    ELSE BadOperands(a, b)

\* a - b : CurveBN.__sub__ / Point.__sub__
Sub(a, b) ==
    IF IsBN(a) /\ IsBN(b) THEN BN((a.v - b.v) % Order)
    ELSE IF IsPT(a) /\ IsPT(b) THEN PT((a.v - b.v) % Order)
    ELSE BadOperands(a, b)

\* a * b : CurveBN.__mul__ / Point.__mul__ / Point.__rmul__
Mul(a, b) ==
    IF IsBN(a) /\ IsBN(b) THEN BN((a.v * b.v) % Order)
    ELSE IF (IsBN(a) /\ IsPT(b)) \/ (IsPT(a) /\ IsBN(b)) THEN PT((a.v * b.v) % Order)
    ELSE BadOperands(a, b)

\* An inversion that returns zero for zero instead of failing
Invert_zero_of_zero(a) ==
    IF ~IsBN(a) THEN BadOperands(a, a)
    ELSE IF a.v = 0 THEN BN(0)
    ELSE BN(CHOOSE x \in 1..(Order - 1) : (x * a.v) % Order = 1)

\* ~a : CurveBN.__invert__, the modular inverse; zero has none and the call fails
Invert(a) ==
    IF ~IsBN(a) THEN BadOperands(a, a)
    ELSE IF a.v = 0 THEN Raise("Exception")
    ELSE BN(CHOOSE x \in 1..(Order - 1) : (x * a.v) % Order = 1)

\* a / b : CurveBN.__truediv__
Div(a, b) == Mul(a, Invert(b))

\* ------------------------------------------------------------ umbral.utils
RECURSIVE horner(_, _, _, _)
horner(coeff, x, i, result) ==
    IF i < 1 THEN result
    ELSE horner(coeff, x, i - 1, Add(Mul(result, x), coeff[i]))

\* poly_eval(coeff, x): Horner's rule, starting from the last coefficient.
poly_eval(coeff, x) ==
    IF Len(coeff) = 0 THEN Raise("IndexError")
    ELSE horner(coeff, x, Len(coeff) - 1, coeff[Len(coeff)])

\* lambda_coeff(id_i, selected_ids): Lagrange coefficient at x = 0.
RECURSIVE lambda_fold(_, _, _, _)
lambda_fold(ids, id_i, j, result) ==
    IF j > Len(ids) THEN result
    ELSE lambda_fold(ids, id_i, j + 1,
                     Div(Mul(result, ids[j]), Sub(ids[j], id_i)))

lambda_coeff(id_i, selected_ids) ==
    LET ids == SelectSeq(selected_ids, LAMBDA x : x # id_i)
    IN  IF Len(ids) = 0 THEN BN(1)
        ELSE lambda_fold(ids, id_i, 2, Div(ids[1], Sub(ids[1], id_i)))

\* ------------------------------------------------------------ byte strings
RECURSIVE Pow(_, _)
Pow(b, e) == IF e = 0 THEN 1 ELSE b * Pow(b, e - 1)

\* int.to_bytes(width, 'big')
I2OSP(x, width) ==
    [i \in 1..width |-> (x \div Pow(ByteRange, width - i)) % ByteRange]

\* int.from_bytes(data, 'big')
RECURSIVE OS2IP(_)
OS2IP(data) ==
    IF Len(data) = 0 THEN 0
    ELSE OS2IP(SubSeq(data, 1, Len(data) - 1)) * ByteRange + data[Len(data)]

\* CurveBN.to_bytes(): fixed-width big-endian
CurveBN_to_bytes(a) == I2OSP(a.v, CURVE_BN_SIZE)

\* CurveBN.from_bytes(data): exactly CURVE_BN_SIZE bytes, value below the order
CurveBN_from_bytes(data) ==
    IF Len(data) # CURVE_BN_SIZE THEN Raise("ValueError")
    ELSE IF OS2IP(data) >= Order THEN Raise("ValueError")
    ELSE BN(OS2IP(data))

\* Point.to_bytes(): compressed form, a sign byte (2 or 3) then the
\* x-coordinate, which P and -P share.  The identity encodes as one zero byte.
Point_x(p) == IF p.v <= Order - p.v THEN p.v ELSE Order - p.v

Point_to_bytes(p) ==
    IF p.v = 0 THEN <<0>>
    ELSE <<IF Point_x(p) = p.v THEN 2 ELSE 3>> \o I2OSP(Point_x(p), CURVE_BN_SIZE)

\* Point.from_bytes(data)
Point_from_bytes(data) ==
    IF Len(data) # CURVE_BN_SIZE + 1 THEN Raise("ValueError")
    ELSE IF data[1] \notin {2, 3} THEN Raise("ValueError")
    ELSE LET x == OS2IP(Tail(data))
         IN  IF x < 1 \/ 2 * x > Order THEN Raise("ValueError")
             ELSE IF data[1] = 2 THEN PT(x) ELSE PT(Order - x)

\* bytes(x) of a curve object, as hash_to_curvebn and bytes() take it
Bytes(a) == IF IsPT(a) THEN Point_to_bytes(a) ELSE CurveBN_to_bytes(a)

\* bytes(VariableLengthBytestring(message)): length header, then the message
VariableLengthBytestring(message) == I2OSP(Len(message), LENGTH_BYTES) \o message

RECURSIVE Join(_)
Join(seqs) == IF Len(seqs) = 0 THEN <<>> ELSE Head(seqs) \o Join(Tail(seqs))

\* bytes(VariableLengthBytestring.bundle(collection))
bundle(collection) ==
    VariableLengthBytestring(
        Join([i \in 1..Len(collection) |-> VariableLengthBytestring(collection[i])]))

\* BytestringSplitter(VariableLengthBytestring).repeat(data)
RECURSIVE repeat(_)
repeat(data) ==
    IF Len(data) = 0 THEN [ok |-> TRUE, items |-> <<>>]
    ELSE IF Len(data) < LENGTH_BYTES THEN [ok |-> FALSE, items |-> <<>>]
    ELSE LET n == OS2IP(SubSeq(data, 1, LENGTH_BYTES))
         IN  IF Len(data) < LENGTH_BYTES + n THEN [ok |-> FALSE, items |-> <<>>]
             ELSE LET rest == repeat(SubSeq(data, LENGTH_BYTES + n + 1, Len(data)))
                  IN  [ok |-> rest.ok,
                       items |-> <<SubSeq(data, LENGTH_BYTES + 1, LENGTH_BYTES + n)>>
                                 \o rest.items]

\* VariableLengthBytestring.dispense(data): strip the outer header, split the rest
dispense(data) ==
    IF Len(data) < LENGTH_BYTES THEN [ok |-> FALSE, items |-> <<>>]
    ELSE IF OS2IP(SubSeq(data, 1, LENGTH_BYTES)) # Len(data) - LENGTH_BYTES
         THEN [ok |-> FALSE, items |-> <<>>]
    ELSE repeat(SubSeq(data, LENGTH_BYTES + 1, Len(data)))

\* A splitter that takes the fields from the front and ignores what follows
BytestringSplitter_with_remainder(data) ==
    IF Len(data) < 2 * CURVE_BN_SIZE THEN <<Raise("ValueError"), Raise("ValueError")>>
    ELSE <<CurveBN_from_bytes(SubSeq(data, 1, CURVE_BN_SIZE)),
           CurveBN_from_bytes(SubSeq(data, CURVE_BN_SIZE + 1, 2 * CURVE_BN_SIZE))>>

\* BytestringSplitter((CurveBN, 32), (CurveBN, 32))(data): the splitter takes
\* a message of exactly the length of its fields
BytestringSplitter(data) ==
    IF Len(data) # 2 * CURVE_BN_SIZE THEN <<Raise("ValueError"), Raise("ValueError")>>
    ELSE <<CurveBN_from_bytes(SubSeq(data, 1, CURVE_BN_SIZE)),
           CurveBN_from_bytes(SubSeq(data, CURVE_BN_SIZE + 1, 2 * CURVE_BN_SIZE))>>

\* The first error among the elements of a sequence of values, or None.
FirstError(s) ==
    IF \E i \in 1..Len(s) : IsError(s[i])
    THEN s[CHOOSE i \in 1..Len(s) : IsError(s[i]) /\ \A j \in 1..(i - 1) : ~IsError(s[j])]
    ELSE None

\* --------------------------------------------------------------- dkg.py
\* class SchnorrProof
SchnorrProof(sigma, public_comm) ==
    [type |-> "SchnorrProof", sigma |-> sigma, public_comm |-> public_comm]

\* class DKGShare
DKGShare(share, index) == [type |-> "DKGShare", share |-> share, index |-> index]

\* class Polynomial
Polynomial(coeffs, secret) == [type |-> "Polynomial", coeffs |-> coeffs, secret |-> secret]

\* The bytes prove_knowledge feeds to hash_to_curvebn, in order:
\* *public_data, bytes(secret * g), bytes(k * g)
prove_knowledge_data(secret, public_data, k) ==
    public_data \o Bytes(Mul(secret, get_generator_from_curve))
                \o Bytes(Mul(k, get_generator_from_curve))

\* prove_knowledge with the challenge left out of sigma
prove_knowledge_without_challenge(secret, k, public_comm) ==
    SchnorrProof(Add(k, secret), public_comm)

\* SchnorrProof.prove_knowledge, given the nonce k drawn and the hash value
prove_knowledge(secret, k, public_comm) ==
    SchnorrProof(Add(k, Mul(secret, public_comm)), public_comm)

\* k_prime of SchnorrProof.verify
k_prime(self, witness) ==
    Sub(Mul(self.sigma, get_generator_from_curve), Mul(self.public_comm, witness))

\* The bytes SchnorrProof.verify feeds to hash_to_curvebn
verify_data(self, witness, public_data) ==
    public_data \o Bytes(witness) \o Bytes(k_prime(self, witness))

\* SchnorrProof.verify without the comparison
SchnorrProof_verify_unchecked(self, sigma_prime) == True

\* SchnorrProof.verify, given the hash value sigma_prime
SchnorrProof_verify(self, sigma_prime) ==
    IF ~(self.public_comm = sigma_prime) THEN Raise("Exception") ELSE True

SchnorrProof_to_bytes(self) ==
    CurveBN_to_bytes(self.sigma) \o CurveBN_to_bytes(self.public_comm)

\* SchnorrProof.from_bytes with the two components swapped
SchnorrProof_from_bytes_swapped(data) ==
    LET components == BytestringSplitter(data)
    IN  IF FirstError(components) # None THEN FirstError(components)
        ELSE SchnorrProof(components[2], components[1])

SchnorrProof_from_bytes(data) ==
    LET components == BytestringSplitter(data)
    IN  IF FirstError(components) # None THEN FirstError(components)
        ELSE SchnorrProof(components[1], components[2])

DKGShare_from_bytes(data) ==
    LET components == BytestringSplitter(data)
    IN  IF FirstError(components) # None THEN FirstError(components)
        ELSE DKGShare(components[1], components[2])

DKGShare_to_bytes(self) ==
    CurveBN_to_bytes(self.share) \o CurveBN_to_bytes(self.index)

\* Python truthiness: None is false and so is the empty string; a CurveBN
\* defines neither __bool__ nor __len__, so every CurveBN object is true.
Truthy(x) == IF x.type = "str" THEN x.v # 0 ELSE x.type # "None"

\* An evaluate that takes the index one whatever index it is given
evaluate_at_one(self, index, rand) ==
    DKGShare(poly_eval(self.coeffs, BN(1)), BN(1))

\* An evaluate that takes a zero index for an omitted one
evaluate_redrawing_zero(self, index, rand) ==
    LET idx == IF ~Truthy(index) \/ index = BN(0) THEN rand ELSE index
        share == poly_eval(self.coeffs, idx)
    IN  IF IsError(share) THEN share ELSE DKGShare(share, idx)

\* Polynomial.evaluate(index); rand is the value CurveBN.gen_rand() returns
\* when it is called
evaluate(self, index, rand) ==
    LET idx == IF ~Truthy(index) THEN rand ELSE index
        share == poly_eval(self.coeffs, idx)
    IN  IF IsError(share) THEN share ELSE DKGShare(share, idx)

\* DKGShare.verify with the test inverted
DKGShare_verify_inverted(self, poly_comm) ==
    LET comm_share == evaluate(poly_comm, self.index, None)
    IN  IF IsError(comm_share) THEN comm_share
        ELSE IF comm_share.share = Mul(self.share, get_generator_from_curve)
        THEN Raise("Exception")
        ELSE True

\* DKGShare.verify(poly_comm)
DKGShare_verify(self, poly_comm) ==
    LET comm_share == evaluate(poly_comm, self.index, None)
    IN  IF IsError(comm_share) THEN comm_share
        ELSE IF ~(comm_share.share = Mul(self.share, get_generator_from_curve))
        THEN Raise("Exception")
        ELSE True

\* Polynomial.__len__ and the degree of a polynomial, its length minus one
Polynomial_len(self) == Len(self.coeffs)
Polynomial_degree(self) == Polynomial_len(self) - 1

\* A sampling that returns degree + 1 coefficients
Polynomial_gen_rand_one_more(degree, secret) ==
    {Polynomial(coeffs, secret) : coeffs \in [1..(degree + 1) -> gen_rand]}

\* Polynomial.gen_rand(degree, secret): the polynomials it can return
Polynomial_gen_rand(degree, secret) ==
    {Polynomial(coeffs, secret) : coeffs \in [1..degree -> gen_rand]}

\* Polynomial.from_bytes(data, secret)
Polynomial_from_bytes(data, secret) ==
    LET coeffs_bytes == dispense(data)
        coeffs == [i \in 1..Len(coeffs_bytes.items) |->
                     IF secret THEN CurveBN_from_bytes(coeffs_bytes.items[i])
                     ELSE Point_from_bytes(coeffs_bytes.items[i])]
    IN  IF ~coeffs_bytes.ok THEN Raise("ValueError")
        ELSE IF FirstError(coeffs) # None THEN FirstError(coeffs)
        ELSE Polynomial(coeffs, secret)

\* Polynomial.to_bytes joining the coefficients without their own headers
Polynomial_to_bytes_unbundled(self) ==
    VariableLengthBytestring(Join([i \in 1..Len(self.coeffs) |-> Bytes(self.coeffs[i])]))

\* Polynomial.to_bytes()
Polynomial_to_bytes(self) ==
    bundle([i \in 1..Len(self.coeffs) |-> Bytes(self.coeffs[i])])

\* Polynomial.commitment with the coefficients in reverse order
commitment_reversed(self) ==
    Polynomial([i \in 1..Len(self.coeffs) |->
                  Mul(self.coeffs[Len(self.coeffs) + 1 - i], get_generator_from_curve)],
               FALSE)

\* Polynomial.commitment giving the commitment the tag of the polynomial
commitment_keeping_tag(self) ==
    Polynomial([i \in 1..Len(self.coeffs) |->
                  Mul(self.coeffs[i], get_generator_from_curve)], self.secret)

\* Polynomial.commitment(): a_i * g for every coefficient; an error of the
\* multiplication ends the call
commitment(self) ==
    LET pub_coeffs == [i \in 1..Len(self.coeffs) |->
                         Mul(self.coeffs[i], get_generator_from_curve)]
    IN  IF FirstError(pub_coeffs) # None THEN FirstError(pub_coeffs)
        ELSE Polynomial(pub_coeffs, FALSE)

\* Polynomial.__eq__ / SchnorrProof.__eq__ / DKGShare.__eq__
Polynomial_eq(self, other) == self.coeffs = other.coeffs
SchnorrProof_eq(self, other) ==
    self.sigma = other.sigma /\ self.public_comm = other.public_comm
DKGShare_eq(self, other) == self.share = other.share /\ self.index = other.index

\* gen_pederson_shares generating one share too few
gen_pederson_shares_one_short(t, n, ceremony_id, secret_polynomial, k, public_comm, rand) ==
    LET poly_comm == commitment(secret_polynomial)
        comm_proof == prove_knowledge(secret_polynomial.coeffs[1], k, public_comm)
        shares == [i \in 1..(n - 1) |-> evaluate(secret_polynomial, None, rand[i])]
    IN  <<poly_comm, comm_proof, shares>>

\* gen_pederson_shares(t, n, ceremony_id), given what it samples: the secret
\* polynomial, the nonce k, the hash value public_comm and the n indices rand
gen_pederson_shares(t, n, ceremony_id, secret_polynomial, k, public_comm, rand) ==
    LET poly_comm == commitment(secret_polynomial)
        comm_proof == prove_knowledge(secret_polynomial.coeffs[1], k, public_comm)
        shares == [i \in 1..n |-> evaluate(secret_polynomial, None, rand[i])]
    IN  <<poly_comm, comm_proof, shares>>

\* A verification that takes the last coefficient for the witness
verify_pederson_commitment_data_last(poly_comm, comm_proof, ceremony_id) ==
    verify_data(comm_proof, poly_comm.coeffs[Len(poly_comm.coeffs)], ceremony_id)

\* The bytes verify_pederson_commitment has hashed
verify_pederson_commitment_data(poly_comm, comm_proof, ceremony_id) ==
    verify_data(comm_proof, poly_comm.coeffs[1], ceremony_id)

\* verify_pederson_commitment(poly_comm, comm_proof, ceremony_id), given the
\* hash value sigma_prime
verify_pederson_commitment(comm_proof, sigma_prime) ==
    SchnorrProof_verify(comm_proof, sigma_prime)

\* A verify_pederson_share that catches the exception and returns False
verify_pederson_share_swallowing(share, poly_comm) ==
    IF IsError(DKGShare_verify(share, poly_comm)) THEN [type |-> "bool", v |-> 0]
    ELSE DKGShare_verify(share, poly_comm)

\* verify_pederson_share(share, poly_comm)
verify_pederson_share(share, poly_comm) == DKGShare_verify(share, poly_comm)

\* Lagrange interpolation at x = 0 of the shares picked: the sum of
\* lambda_coeff(index_i, indices) * share_i, as umbral.utils.lambda_coeff is used
RECURSIVE interpolate_sum(_, _, _)
interpolate_sum(picked, ids, i) ==
    IF i > Len(picked) THEN BN(0)
    ELSE Add(Mul(lambda_coeff(picked[i].index, ids), picked[i].share),
             interpolate_sum(picked, ids, i + 1))

interpolate(picked) ==
    interpolate_sum(picked, [i \in 1..Len(picked) |-> picked[i].index], 1)

\* ------------------------------------------------------------ two_party.py
\* class TwoPartyElement
TwoPartyElement(share, index) ==
    [type |-> "TwoPartyElement", share |-> share, index |-> index]

\* A reassembly that adds the two shares without the Lagrange coefficients
reassemble_with_unweighted(self, other) == Add(self.share, other.share)

\* TwoPartyElement.reassemble_with(other)
reassemble_with(self, other) ==
    LET lambda_1 == lambda_coeff(self.index, <<self.index, other.index>>)
        lambda_2 == lambda_coeff(other.index, <<self.index, other.index>>)
    IN  Add(Mul(lambda_1, self.share), Mul(lambda_2, other.share))

\* A split that hands out the secret as the share
split_curvebn_share_is_secret(secret, chosen_share, chosen_index, x_rand_index) ==
    LET r_coeff == Mul(Sub(chosen_share, secret), Invert(chosen_index))
    IN  IF IsError(r_coeff) THEN r_coeff
        ELSE TwoPartyElement(secret, x_rand_index)

\* TwoPartyElement.split_curvebn(secret, chosen_share, chosen_index), given
\* the index x_rand_index that CurveBN.gen_rand() returns
split_curvebn(secret, chosen_share, chosen_index, x_rand_index) ==
    LET r_coeff == Mul(Sub(chosen_share, secret), Invert(chosen_index))
        z_share == Add(secret, Mul(r_coeff, x_rand_index))
    IN  IF IsError(z_share) THEN z_share
        ELSE TwoPartyElement(z_share, x_rand_index)

\* nucypher.crypto.utils.derive_curvebn_shared_secret(priv_key, point, params):
\* a Diffie-Hellman point priv_key * point, hashed to a nonzero scalar
derive_curvebn_shared_secret(priv_key, point) ==
    BN(1 + (Mul(priv_key, point).v % (Order - 1)))

\* from_shared_secret with a share that depends on what was called before
from_shared_secret_stateful(priv_key, sharing_point, indexing_point) ==
    LET share_value == derive_curvebn_shared_secret(priv_key, sharing_point)
        index_value == derive_curvebn_shared_secret(priv_key, indexing_point)
    IN  TwoPartyElement(IF two_party.stage = "none" THEN share_value
                        ELSE Add(share_value, BN(1)), index_value)

\* TwoPartyElement.from_shared_secret(priv_key, sharing_point, indexing_point, params)
from_shared_secret(priv_key, sharing_point, indexing_point) ==
    LET share_value == derive_curvebn_shared_secret(priv_key, sharing_point)
        index_value == derive_curvebn_shared_secret(priv_key, indexing_point)
    IN  TwoPartyElement(share_value, index_value)

\* ------------------------------------------------------ cone_of_silence.py
\* A str is known by its length and a number telling strings of one length
\* apart: v = 0 is the empty string
Str(x) == [type |-> "str", v |-> x]

\* A CryptoPowerSet object
CryptoPowerSet(x) == [type |-> "CryptoPowerSet", v |-> x]

\* An attribute that no assignment has created
Unset == [type |-> "unset", v |-> 0]

\* What a method call leaves: the object afterwards and what the call
\* returned or raised
Outcome(self, result) == [self |-> self, result |-> result]

\* Keyring.__init__ accepting both arguments together
Keyring_init_either(keyring_file, power_set) ==
    IF ~(Truthy(keyring_file) \/ Truthy(power_set)) THEN Raise("ValueError")
    ELSE [type |-> "Keyring", derived_key |-> None, keyring_data |-> None,
          is_unlocked |-> Truthy(power_set),
          keyring_file |-> IF Truthy(keyring_file) THEN keyring_file ELSE Unset,
          power_set |-> IF Truthy(power_set) THEN power_set ELSE Unset]

\* Keyring.__init__(keyring_file, power_set): the new object, or ValueError
Keyring_init(keyring_file, power_set) ==
    IF ~(Truthy(keyring_file) # Truthy(power_set)) THEN Raise("ValueError")
    ELSE [type |-> "Keyring", derived_key |-> None, keyring_data |-> None,
          is_unlocked |-> Truthy(power_set),
          keyring_file |-> IF Truthy(keyring_file) THEN keyring_file ELSE Unset,
          power_set |-> IF Truthy(power_set) THEN power_set ELSE Unset]

\* What open(self._keyring_file) and json.loads find: no file, a keyring
\* with a master salt, or one without
KeyringFiles ==
    {Raise("FileNotFoundError"), [type |-> "dict", v |-> 1], [type |-> "dict", v |-> 0]}

\* Keyring.__deserialize_keyring_file(decrypt=False), the one call the source
\* makes; file is what the file system holds under self._keyring_file
deserialize_keyring_file(self, file) ==
    IF self.keyring_file = Unset THEN Outcome(self, Raise("AttributeError"))
    ELSE IF ~Truthy(self.keyring_file) THEN Outcome(self, Raise("NoKeyringFile"))
    ELSE IF ~self.is_unlocked THEN Outcome(self, Raise("Locked"))
    ELSE IF ~Truthy(self.keyring_data)
         THEN IF IsError(file) THEN Outcome(self, file)
              ELSE Outcome([self EXCEPT !.keyring_data = file], None)
    ELSE Outcome(self, None)

\* umbral.keys.derive_key_from_password(password, salt)
derive_key_from_password(password, salt) ==
    [type |-> "bytes", v |-> password.v * 2 + salt]

\* Keyring.unlock(password)
Keyring_unlock(self, password, file) ==
    IF self.is_unlocked THEN Outcome(self, Raise("Unlocked"))
    ELSE LET read == deserialize_keyring_file(self, file)
         IN  IF IsError(read.result) THEN read
             ELSE IF read.self.keyring_data.v = 0
                  THEN Outcome(read.self, Raise("KeyError"))
             ELSE Outcome([read.self EXCEPT !.derived_key =
                              derive_key_from_password(password,
                                                       read.self.keyring_data.v)],
                          None)

\* Keyring.lock()
Keyring_lock(self) ==
    IF ~self.is_unlocked THEN Outcome(self, Raise("Locked"))
    ELSE Outcome(self, None)

\* Keyring.as_power_set
as_power_set(self) ==
    IF ~self.is_unlocked THEN Outcome(self, Raise("Locked"))
    ELSE IF self.power_set = Unset THEN Outcome(self, Raise("AttributeError"))
    ELSE Outcome(self, self.power_set)

\* ------------------------------------------------------------ state tuples
dkg_vars == <<ceremony, oracle, last, commitment_verified>>
vars == <<ceremony, oracle, last, commitment_verified, cross, two_party, wire,
          poly, pair, the_keyring>>

\* The ceremony ids callers pass (byte strings)
CeremonyIds == {<<1>>, <<2>>}

\* The scalars a caller can hold
Scalars == {BN(x) : x \in 0..(Order - 1)}

\* The points a caller can hold: all of them, or all but the identity
Points == {PT(x) : x \in 0..(Order - 1)}
NonIdentity == {PT(x) : x \in 1..(Order - 1)}

\* A hash that gives every input the same value
hash_to_curvebn_constant(data) == {BN(1)}

\* A hash whose value for an input is taken from the values it has given,
\* whichever input they were given for
hash_to_curvebn_shared(data) ==
    IF oracle # {} THEN {e.out : e \in oracle}
    ELSE {BN(c) : c \in 1..(Order - 1)}

\* hash_to_curvebn(data): a nonzero scalar.  The hash is a random oracle
\* without collisions: an input whose value a proof holds keeps that value,
\* any other input takes a value no recorded input has.
hash_to_curvebn(data) ==
    IF \E e \in oracle : e.data = data
    THEN {e.out : e \in {x \in oracle : x.data = data}}
    ELSE {BN(c) : c \in 1..(Order - 1)} \ {e.out : e \in oracle}

Unstarted ==
    [t |-> 0, n |-> 0, ceremony_id |-> <<>>,
     secret_polynomial |-> Polynomial(<<>>, TRUE),
     poly_comm |-> Polynomial(<<>>, FALSE),
     comm_proof |-> SchnorrProof(BN(0), BN(0)),
     shares |-> <<>>]

Call(op, ceremony_id, index, result) ==
    [op |-> op, ceremony_id |-> ceremony_id, index |-> index, result |-> result]

NoCross ==
    [stage |-> 0, t |-> 0, n |-> 0, ceremony_id |-> <<>>, other_id |-> <<>>,
     secret_polynomial |-> Polynomial(<<>>, TRUE),
     poly_comm |-> Polynomial(<<>>, FALSE),
     bad_shares |-> <<>>, index |-> 0, result |-> None]

NoSplit ==
    [stage |-> "none", how |-> "none", secret |-> None, deterministic |-> None,
     non_deterministic |-> None, first |-> "none", result |-> None,
     args |-> <<>>, again |-> None, wrong |-> None,
     rand_scalar |-> None, mixed |-> None]

NoWire == [stage |-> "none", obj |-> None, data |-> <<>>, back |-> None]

NoPolynomial ==
    [stage |-> "none", obj |-> None, result |-> None,
     index |-> None, rand |-> None, share |-> None]

\* Neither of the two ceremonies has started.  Each ceremony is known by its
\* ceremony id; hashed is the input and value of the hash its proof holds.
NoPair ==
    [c |-> [id \in CeremonyIds |->
              [ceremony |-> Unstarted, hashed |-> [data |-> <<>>, out |-> BN(0)]]],
     who |-> <<>>, last |-> Call("none", <<>>, 0, None)]

\* No Keyring has been constructed
NoKeyring == [stage |-> "none", args |-> <<>>, obj |-> None, log |-> <<>>]

Init ==
    /\ ceremony = Unstarted
    /\ oracle = {}
    /\ last = Call("none", <<>>, 0, None)
    /\ commitment_verified = FALSE
    /\ cross = NoCross
    /\ two_party = NoSplit
    /\ wire = NoWire
    /\ poly = NoPolynomial
    /\ pair = NoPair
    /\ the_keyring = NoKeyring

\* ------------------------------------------------------- one DKG ceremony
\* One call gen_pederson_shares(t, n, ceremony_id), with everything it samples.
\* The call takes any ceremony id, used before or not.
Generate ==
    \E t \in 1..MaxT, ceremony_id \in CeremonyIds :
    \E n \in t..MaxN :
    \E secret_polynomial \in Polynomial_gen_rand(t, TRUE), k \in gen_rand,
       rand \in [1..n -> gen_rand] :
       LET data == prove_knowledge_data(secret_polynomial.coeffs[1], ceremony_id, k)
       IN  \E public_comm \in hash_to_curvebn(data) :
             LET out == gen_pederson_shares(t, n, ceremony_id, secret_polynomial,
                                            k, public_comm, rand)
             IN  /\ ceremony' = [t |-> t, n |-> n, ceremony_id |-> ceremony_id,
                                 secret_polynomial |-> secret_polynomial,
                                 poly_comm |-> out[1], comm_proof |-> out[2],
                                 shares |-> out[3]]
                 /\ oracle' = oracle \cup {[data |-> data, out |-> public_comm]}
                 /\ last' = Call("gen_pederson_shares", ceremony_id, 0, True)
                 /\ commitment_verified' = FALSE
                 /\ UNCHANGED <<cross, two_party, wire, poly, pair, the_keyring>>

\* The dealer of a ceremony calls gen_pederson_shares.
GenShares ==
    /\ ceremony = Unstarted
    /\ Generate

\* A recipient calls verify_pederson_commitment on the dealer's commitment and
\* proof, under the ceremony id it believes it is in.  verify compares
\* sigma_prime and drops it: the oracle remembers the values a proof holds,
\* and a value that nobody holds can be drawn afresh.
VerifyCommitment ==
    /\ ceremony.t > 0
    /\ \E ceremony_id \in CeremonyIds :
         LET data == verify_pederson_commitment_data(ceremony.poly_comm,
                                                     ceremony.comm_proof, ceremony_id)
         IN  \E sigma_prime \in hash_to_curvebn(data) :
               LET result == verify_pederson_commitment(ceremony.comm_proof, sigma_prime)
               IN  /\ last' = Call("verify_pederson_commitment", ceremony_id, 0, result)
                   /\ commitment_verified' = (commitment_verified \/ result = True)
                   /\ UNCHANGED <<ceremony, oracle, cross, two_party, wire, poly, pair, the_keyring>>

\* A recipient calls verify_pederson_share on one of the shares of the ceremony.
VerifyShare ==
    /\ ceremony.t > 0
    /\ \E j \in 1..Len(ceremony.shares) :
         /\ last' = Call("verify_pederson_share", ceremony.ceremony_id, j,
                         verify_pederson_share(ceremony.shares[j], ceremony.poly_comm))
         /\ UNCHANGED <<ceremony, oracle, commitment_verified, cross, two_party, wire, poly, pair, the_keyring>>

Next == GenShares \/ VerifyCommitment \/ VerifyShare

Spec == Init /\ [][Next]_vars

\* --------------------------------------------- a ceremony run again on abort
\* After a verification has raised, gen_pederson_shares is called again with
\* the same t and n, under any ceremony id.  The hash values of the ceremony
\* it replaces are held by nobody any more and are forgotten.
Rerun ==
    /\ last.op \in {"verify_pederson_commitment", "verify_pederson_share"}
    /\ IsError(last.result)
    /\ \E ceremony_id \in CeremonyIds :
       \E secret_polynomial \in Polynomial_gen_rand(ceremony.t, TRUE), k \in gen_rand,
          rand \in [1..ceremony.n -> gen_rand],
          public_comm \in {BN(c) : c \in 1..(Order - 1)} :
          LET data == prove_knowledge_data(secret_polynomial.coeffs[1], ceremony_id, k)
              out == gen_pederson_shares(ceremony.t, ceremony.n, ceremony_id,
                                         secret_polynomial, k, public_comm, rand)
          IN  /\ ceremony' = [ceremony EXCEPT !.ceremony_id = ceremony_id,
                                 !.secret_polynomial = secret_polynomial,
                                 !.poly_comm = out[1], !.comm_proof = out[2],
                                 !.shares = out[3]]
              /\ oracle' = {[data |-> data, out |-> public_comm]}
              /\ last' = Call("gen_pederson_shares", ceremony_id, 0, True)
              /\ commitment_verified' = FALSE
              /\ UNCHANGED <<cross, two_party, wire, poly, pair, the_keyring>>

NextRerun == GenShares \/ VerifyCommitment \/ VerifyShare \/ Rerun

SpecRerun == Init /\ [][NextRerun]_vars

\* ------------------------------------------- a proof checked against a point
\* comm_proof.verify(witness, ceremony_id) with the ceremony id of the proof
\* and any point as witness
VerifyWitness ==
    /\ ceremony.t > 0
    /\ \E witness \in Points :
         LET data == verify_data(ceremony.comm_proof, witness, ceremony.ceremony_id)
         IN  \E sigma_prime \in hash_to_curvebn(data) :
               last' = [op |-> "SchnorrProof.verify",
                        ceremony_id |-> ceremony.ceremony_id, index |-> 0,
                        result |-> SchnorrProof_verify(ceremony.comm_proof, sigma_prime),
                        witness |-> witness]
    /\ UNCHANGED <<ceremony, oracle, commitment_verified, cross, two_party, wire,
                   poly, pair, the_keyring>>

NextWitness == GenShares \/ VerifyWitness

SpecWitness == Init /\ [][NextWitness]_vars

\* ------------------------------------ a commitment changed above its head
\* The commitments that differ from poly_comm above coefficient 0 only: one
\* coefficient of index >= 1 replaced by any point, or all of them cut off
Tampered(poly_comm) ==
    ({Polynomial([poly_comm.coeffs EXCEPT ![i] = point], FALSE) :
         i \in 2..Len(poly_comm.coeffs), point \in Points}
     \cup {Polynomial(SubSeq(poly_comm.coeffs, 1, 1), FALSE)})
    \ {poly_comm}

\* A recipient calls verify_pederson_commitment on such a commitment, with
\* the proof and the ceremony id of the ceremony
VerifyTamperedCommitment ==
    /\ ceremony.t > 0
    /\ \E received \in Tampered(ceremony.poly_comm) :
         LET data == verify_pederson_commitment_data(received, ceremony.comm_proof,
                                                     ceremony.ceremony_id)
         IN  \E sigma_prime \in hash_to_curvebn(data) :
               last' = [op |-> "verify_pederson_commitment",
                        ceremony_id |-> ceremony.ceremony_id, index |-> 0,
                        result |-> verify_pederson_commitment(ceremony.comm_proof,
                                                              sigma_prime),
                        received |-> received]
    /\ UNCHANGED <<ceremony, oracle, commitment_verified, cross, two_party, wire,
                   poly, pair, the_keyring>>

NextTamper == GenShares \/ VerifyTamperedCommitment

SpecTamper == Init /\ [][NextTamper]_vars

\* --------------------------------------- verifications that can go wrong
\* A recipient calls verify_pederson_share on a share of the ceremony whose
\* value was changed on the way (one was added to it).
VerifyCorruptedShare ==
    /\ ceremony.t > 0
    /\ \E j \in 1..Len(ceremony.shares) :
         LET received == DKGShare(Add(ceremony.shares[j].share, BN(1)),
                                  ceremony.shares[j].index)
         IN  last' = [op |-> "verify_pederson_share",
                      ceremony_id |-> ceremony.ceremony_id, index |-> j,
                      result |-> verify_pederson_share(received, ceremony.poly_comm),
                      received |-> received]
    /\ UNCHANGED <<ceremony, oracle, commitment_verified, cross, two_party, wire,
                   poly, pair, the_keyring>>

NextOutcome == GenShares \/ VerifyCommitment \/ VerifyShare \/ VerifyCorruptedShare

SpecOutcome == Init /\ [][NextOutcome]_vars

\* ------------------------------------------- two ceremonies, interleaved
\* The dealer of ceremony who calls gen_pederson_shares(1, 1, who).
PairGenShares ==
    \E who \in CeremonyIds :
       /\ pair.c[who].ceremony = Unstarted
       /\ \E secret_polynomial \in Polynomial_gen_rand(1, TRUE), k \in gen_rand,
             rand \in [1..1 -> gen_rand] :
            LET data == prove_knowledge_data(secret_polynomial.coeffs[1], who, k)
            IN  \E public_comm \in hash_to_curvebn(data) :
                  LET out == gen_pederson_shares(1, 1, who, secret_polynomial,
                                                 k, public_comm, rand)
                      hashed == [data |-> data, out |-> public_comm]
                  IN  /\ pair' = [pair EXCEPT
                            !.c[who] = [ceremony |->
                                          [t |-> 1, n |-> 1, ceremony_id |-> who,
                                           secret_polynomial |-> secret_polynomial,
                                           poly_comm |-> out[1], comm_proof |-> out[2],
                                           shares |-> out[3]],
                                        hashed |-> hashed],
                            !.who = who,
                            !.last = Call("gen_pederson_shares", who, 0, True)]
                      /\ oracle' = oracle \cup {hashed}
                      /\ UNCHANGED <<ceremony, last, commitment_verified, cross,
                                     two_party, wire, poly, the_keyring>>

\* A recipient of ceremony who calls verify_pederson_commitment, under either
\* ceremony id.
PairVerifyCommitment ==
    \E who \in CeremonyIds, ceremony_id \in CeremonyIds :
       /\ pair.c[who].ceremony # Unstarted
       /\ LET c == pair.c[who].ceremony
              data == verify_pederson_commitment_data(c.poly_comm, c.comm_proof,
                                                      ceremony_id)
          IN  \E sigma_prime \in hash_to_curvebn(data) :
                pair' = [pair EXCEPT !.who = who,
                           !.last = Call("verify_pederson_commitment", ceremony_id, 0,
                                         verify_pederson_commitment(c.comm_proof,
                                                                    sigma_prime))]
       /\ UNCHANGED <<ceremony, oracle, last, commitment_verified, cross,
                      two_party, wire, poly, the_keyring>>

\* A recipient of ceremony who calls verify_pederson_share on its share.
PairVerifyShare ==
    \E who \in CeremonyIds :
       /\ pair.c[who].ceremony # Unstarted
       /\ LET c == pair.c[who].ceremony
          IN  \E j \in 1..Len(c.shares) :
                pair' = [pair EXCEPT !.who = who,
                           !.last = Call("verify_pederson_share", who, j,
                                         verify_pederson_share(c.shares[j], c.poly_comm))]
       /\ UNCHANGED <<ceremony, oracle, last, commitment_verified, cross,
                      two_party, wire, poly, the_keyring>>

NextPair == PairGenShares \/ PairVerifyCommitment \/ PairVerifyShare

SpecPair == Init /\ [][NextPair]_vars

\* ------------------------------------- a share checked against another ceremony
\* poly_comm, _, _ = gen_pederson_shares(t, n, ceremony_id): the caller keeps the
\* commitment.  The proof is dropped, so no hash value is held.
FirstCeremony ==
    /\ cross.stage = 0
    /\ \E t \in 1..MaxT, ceremony_id \in CeremonyIds :
       \E n \in t..MaxN :
       \E secret_polynomial \in Polynomial_gen_rand(t, TRUE), k \in gen_rand,
          rand \in [1..n -> gen_rand] :
       \E public_comm \in hash_to_curvebn(
              prove_knowledge_data(secret_polynomial.coeffs[1], ceremony_id, k)) :
          LET out == gen_pederson_shares(t, n, ceremony_id, secret_polynomial,
                                         k, public_comm, rand)
          IN  cross' = [cross EXCEPT !.stage = 1, !.t = t, !.n = n,
                                     !.ceremony_id = ceremony_id,
                                     !.secret_polynomial = secret_polynomial,
                                     !.poly_comm = out[1]]
    /\ UNCHANGED <<ceremony, oracle, last, commitment_verified, two_party, wire, poly, pair, the_keyring>>

\* _, _, bad_shares = gen_pederson_shares(t, n, other_id), another ceremony
SecondCeremony ==
    /\ cross.stage = 1
    /\ \E other_id \in CeremonyIds \ {cross.ceremony_id} :
       \E secret_polynomial \in Polynomial_gen_rand(cross.t, TRUE), k \in gen_rand,
          rand \in [1..cross.n -> gen_rand] :
       \E public_comm \in hash_to_curvebn(
              prove_knowledge_data(secret_polynomial.coeffs[1], other_id, k)) :
          LET out == gen_pederson_shares(cross.t, cross.n, other_id, secret_polynomial,
                                         k, public_comm, rand)
          IN  cross' = [cross EXCEPT !.stage = 2, !.other_id = other_id,
                                     !.bad_shares = out[3]]
    /\ UNCHANGED <<ceremony, oracle, last, commitment_verified, two_party, wire, poly, pair, the_keyring>>

\* verify_pederson_share(bad_shares[j], poly_comm)
CrossVerify ==
    /\ cross.stage = 2
    /\ \E j \in 1..Len(cross.bad_shares) :
         cross' = [cross EXCEPT !.stage = 3, !.index = j,
                     !.result = verify_pederson_share(cross.bad_shares[j], cross.poly_comm)]
    /\ UNCHANGED <<ceremony, oracle, last, commitment_verified, two_party, wire, poly, pair, the_keyring>>

\* verify_pederson_share(DKGShare(share, index), poly_comm) for a share a
\* recipient was handed, of any value and index
VerifyAlteredShare ==
    /\ cross.stage = 1
    /\ \E share \in Scalars, index \in Scalars :
         cross' = [cross EXCEPT !.stage = 4, !.index = 1,
                     !.bad_shares = <<DKGShare(share, index)>>,
                     !.result = verify_pederson_share(DKGShare(share, index),
                                                      cross.poly_comm)]
    /\ UNCHANGED <<ceremony, oracle, last, commitment_verified, two_party, wire,
                   poly, pair, the_keyring>>

NextCross == FirstCeremony \/ SecondCeremony \/ CrossVerify \/ VerifyAlteredShare

SpecCross == Init /\ [][NextCross]_vars

\* ------------------------------------------------------- two-party split
\* deterministic_scalar = TwoPartyElement(known_share, known_index), the
\* index nonzero
ChooseElement ==
    /\ two_party.stage = "none"
    /\ \E known_share \in Scalars, known_index \in Scalars \ {BN(0)} :
         two_party' = [two_party EXCEPT !.stage = "chosen", !.how = "chosen",
                         !.deterministic = TwoPartyElement(known_share, known_index)]
    /\ UNCHANGED <<ceremony, oracle, last, commitment_verified, cross, wire, poly, pair, the_keyring>>

\* deterministic_scalar = TwoPartyElement(known_share, 0): a caller passing
\* the index zero
ChooseZeroIndex ==
    /\ two_party.stage = "none"
    /\ \E known_share \in Scalars :
         two_party' = [two_party EXCEPT !.stage = "chosen", !.how = "zero_index",
                         !.deterministic = TwoPartyElement(known_share, BN(0))]
    /\ UNCHANGED <<ceremony, oracle, last, commitment_verified, cross, wire, poly, pair, the_keyring>>

\* deterministic_scalar = TwoPartyElement.from_shared_secret(...)
FromSharedSecret ==
    /\ two_party.stage = "none"
    /\ \E priv_key \in gen_rand, share_point \in NonIdentity, index_point \in NonIdentity :
         two_party' = [two_party EXCEPT !.stage = "chosen", !.how = "shared",
                         !.args = <<priv_key, share_point, index_point>>,
                         !.deterministic =
                             from_shared_secret(priv_key, share_point, index_point)]
    /\ UNCHANGED <<ceremony, oracle, last, commitment_verified, cross, wire, poly, pair, the_keyring>>

\* non_deterministic_scalar = TwoPartyElement.split_curvebn(the_secret,
\*     deterministic_scalar.share, deterministic_scalar.index)
Split ==
    /\ two_party.stage = "chosen"
    /\ \E the_secret \in Scalars, x_rand_index \in gen_rand :
         two_party' = [two_party EXCEPT !.stage = "split", !.secret = the_secret,
                         !.non_deterministic =
                             split_curvebn(the_secret, two_party.deterministic.share,
                                           two_party.deterministic.index, x_rand_index)]
    /\ UNCHANGED <<ceremony, oracle, last, commitment_verified, cross, wire, poly, pair, the_keyring>>

\* non_deterministic_scalar.reassemble_with(deterministic_scalar), or the
\* other way round
Reassemble ==
    /\ two_party.stage = "split"
    /\ ~IsError(two_party.non_deterministic)
    /\ \E first \in {"non_deterministic", "deterministic"} :
         two_party' = [two_party EXCEPT !.stage = "reassembled", !.first = first,
                         !.result =
                             IF first = "non_deterministic"
                             THEN reassemble_with(two_party.non_deterministic,
                                                  two_party.deterministic)
                             ELSE reassemble_with(two_party.deterministic,
                                                  two_party.non_deterministic)]
    /\ UNCHANGED <<ceremony, oracle, last, commitment_verified, cross, wire, poly, pair, the_keyring>>

\* invalid_scalar = TwoPartyElement(share, index), an element that is neither
\* of the two of the split; invalid_scalar.reassemble_with(deterministic_scalar),
\* or the other way round
ReassembleWrong ==
    /\ two_party.stage = "split"
    /\ ~IsError(two_party.non_deterministic)
    /\ \E share \in Scalars, index \in Scalars, first \in {"wrong", "deterministic"} :
         LET invalid_scalar == TwoPartyElement(share, index)
         IN  /\ invalid_scalar # two_party.deterministic
             /\ invalid_scalar # two_party.non_deterministic
             /\ two_party' = [two_party EXCEPT !.stage = "wrong", !.first = first,
                                !.wrong = invalid_scalar,
                                !.result =
                                    IF first = "wrong"
                                    THEN reassemble_with(invalid_scalar,
                                                         two_party.deterministic)
                                    ELSE reassemble_with(two_party.deterministic,
                                                         invalid_scalar)]
    /\ UNCHANGED <<ceremony, oracle, last, commitment_verified, cross, wire, poly, pair, the_keyring>>

\* The two-party computation of S * r: both shares are multiplied by
\* rand_scalar and the elements reassembled (result); the scaled dealer's
\* element is also reassembled with TwoPartyElement(known_share, known_index),
\* whose share is not scaled (mixed)
Compute ==
    /\ two_party.stage = "split"
    /\ ~IsError(two_party.non_deterministic)
    /\ \E rand_scalar \in gen_rand :
         LET s_by_r_prime_share ==
                 Mul(two_party.non_deterministic.share, rand_scalar)
             s_by_r_prime_prime_share ==
                 Mul(two_party.deterministic.share, rand_scalar)
             non_deterministic_scalar ==
                 TwoPartyElement(s_by_r_prime_share, two_party.non_deterministic.index)
             deterministic_scalar ==
                 TwoPartyElement(s_by_r_prime_prime_share, two_party.deterministic.index)
         IN  two_party' = [two_party EXCEPT !.stage = "computed",
                             !.rand_scalar = rand_scalar,
                             !.result = reassemble_with(deterministic_scalar,
                                                        non_deterministic_scalar),
                             !.mixed = reassemble_with(deterministic_scalar,
                                            TwoPartyElement(two_party.deterministic.share,
                                                            two_party.deterministic.index))]
    /\ UNCHANGED <<ceremony, oracle, last, commitment_verified, cross, wire, poly, pair, the_keyring>>

\* TwoPartyElement.from_shared_secret(...) called once more with the arguments
\* of the first call, whatever was called in between
FromSharedSecretAgain ==
    /\ two_party.how = "shared"
    /\ two_party.again = None
    /\ two_party' = [two_party EXCEPT !.again =
                        from_shared_secret(two_party.args[1], two_party.args[2],
                                           two_party.args[3])]
    /\ UNCHANGED <<ceremony, oracle, last, commitment_verified, cross, wire, poly, pair, the_keyring>>

NextTwoParty ==
    \/ ChooseElement \/ ChooseZeroIndex \/ FromSharedSecret \/ Split \/ Reassemble
    \/ FromSharedSecretAgain \/ ReassembleWrong \/ Compute

SpecTwoParty == Init /\ [][NextTwoParty]_vars

\* ---------------------------------------------------------- serialization
\* The curve objects a coefficient can be: a nonzero scalar (secret
\* polynomial) or a point other than the identity (commitment)
Coefficients(secret) ==
    IF secret THEN {BN(x) : x \in 1..(Order - 1)} ELSE NonIdentity

\* poly_bytes = P.to_bytes(), for a polynomial of either tag
PolynomialToBytes ==
    /\ wire.stage = "none"
    /\ \E secret \in BOOLEAN, count \in 1..MaxT :
       \E coeffs \in [1..count -> Coefficients(secret)] :
         wire' = [wire EXCEPT !.stage = "polynomial",
                    !.obj = Polynomial(coeffs, secret),
                    !.data = Polynomial_to_bytes(Polynomial(coeffs, secret))]
    /\ UNCHANGED <<ceremony, oracle, last, commitment_verified, cross, two_party, poly, pair, the_keyring>>

\* Polynomial.from_bytes(poly_bytes, secret=P.secret)
PolynomialFromBytes ==
    /\ wire.stage = "polynomial"
    /\ wire' = [wire EXCEPT !.stage = "polynomial_back",
                  !.back = Polynomial_from_bytes(wire.data, wire.obj.secret)]
    /\ UNCHANGED <<ceremony, oracle, last, commitment_verified, cross, two_party, poly, pair, the_keyring>>

\* schnorr_bytes = comm_proof.to_bytes()
ProofToBytes ==
    /\ wire.stage = "none"
    /\ \E sigma \in Scalars, public_comm \in Scalars :
         wire' = [wire EXCEPT !.stage = "proof",
                    !.obj = SchnorrProof(sigma, public_comm),
                    !.data = SchnorrProof_to_bytes(SchnorrProof(sigma, public_comm))]
    /\ UNCHANGED <<ceremony, oracle, last, commitment_verified, cross, two_party, poly, pair, the_keyring>>

\* SchnorrProof.from_bytes(schnorr_bytes)
ProofFromBytes ==
    /\ wire.stage = "proof"
    /\ wire' = [wire EXCEPT !.stage = "proof_back",
                  !.back = SchnorrProof_from_bytes(wire.data)]
    /\ UNCHANGED <<ceremony, oracle, last, commitment_verified, cross, two_party, poly, pair, the_keyring>>

\* share_bytes = share.to_bytes()
ShareToBytes ==
    /\ wire.stage = "none"
    /\ \E share \in Scalars, index \in Scalars :
         wire' = [wire EXCEPT !.stage = "share",
                    !.obj = DKGShare(share, index),
                    !.data = DKGShare_to_bytes(DKGShare(share, index))]
    /\ UNCHANGED <<ceremony, oracle, last, commitment_verified, cross, two_party, poly, pair, the_keyring>>

\* DKGShare.from_bytes(share_bytes)
ShareFromBytes ==
    /\ wire.stage = "share"
    /\ wire' = [wire EXCEPT !.stage = "share_back",
                  !.back = DKGShare_from_bytes(wire.data)]
    /\ UNCHANGED <<ceremony, oracle, last, commitment_verified, cross, two_party, poly, pair, the_keyring>>

\* The byte buffers a caller can receive, of any length up to MaxExtra more
\* than the two fields take
Buffers ==
    UNION {[1..len -> 0..(ByteRange - 1)] : len \in 0..(2 * CURVE_BN_SIZE + MaxExtra)}

\* SchnorrProof.from_bytes(data) on a received buffer
ProofFromBuffer ==
    /\ wire.stage = "none"
    /\ \E data \in Buffers :
         wire' = [wire EXCEPT !.stage = "proof_buffer", !.data = data,
                    !.back = SchnorrProof_from_bytes(data)]
    /\ UNCHANGED <<ceremony, oracle, last, commitment_verified, cross, two_party, poly, pair, the_keyring>>

\* DKGShare.from_bytes(data) on a received buffer
ShareFromBuffer ==
    /\ wire.stage = "none"
    /\ \E data \in Buffers :
         wire' = [wire EXCEPT !.stage = "share_buffer", !.data = data,
                    !.back = DKGShare_from_bytes(data)]
    /\ UNCHANGED <<ceremony, oracle, last, commitment_verified, cross, two_party, poly, pair, the_keyring>>

NextWire ==
    \/ PolynomialToBytes \/ PolynomialFromBytes
    \/ ProofToBytes \/ ProofFromBytes
    \/ ShareToBytes \/ ShareFromBytes
    \/ ProofFromBuffer \/ ShareFromBuffer

SpecWire == Init /\ [][NextWire]_vars

\* --------------------------------------------------- polynomial operations
\* P = Polynomial.gen_rand(degree, secret=...), with either tag
GenRand ==
    /\ poly.stage = "none"
    /\ \E degree \in 1..MaxT, secret \in BOOLEAN :
       \E P \in Polynomial_gen_rand(degree, secret) :
         poly' = [poly EXCEPT !.stage = "sampled", !.obj = P]
    /\ UNCHANGED <<ceremony, oracle, last, commitment_verified, cross, two_party,
                   wire, pair, the_keyring>>

\* P = Polynomial(coeffs, secret=...): the constructor takes any list of
\* scalars or of points, under either tag
Construct ==
    /\ poly.stage = "none"
    /\ \E count \in 0..MaxT, secret \in BOOLEAN, points \in BOOLEAN :
       \E coeffs \in [1..count -> IF points THEN NonIdentity ELSE Scalars] :
         poly' = [poly EXCEPT !.stage = "sampled", !.obj = Polynomial(coeffs, secret)]
    /\ UNCHANGED <<ceremony, oracle, last, commitment_verified, cross, two_party,
                   wire, pair, the_keyring>>

\* P.commitment()
Commitment ==
    /\ poly.stage = "sampled"
    /\ poly' = [poly EXCEPT !.stage = "committed", !.result = commitment(poly.obj)]
    /\ UNCHANGED <<ceremony, oracle, last, commitment_verified, cross, two_party,
                   wire, pair, the_keyring>>

\* P.commitment().commitment(): commitment() of a polynomial of points
CommitmentOfCommitment ==
    /\ poly.stage = "committed"
    /\ ~IsError(poly.result)
    /\ poly' = [poly EXCEPT !.obj = poly.result,
                             !.result = commitment(poly.result)]
    /\ UNCHANGED <<ceremony, oracle, last, commitment_verified, cross, two_party,
                   wire, pair, the_keyring>>

\* P.evaluate(index), the index given (any scalar) or omitted; rand is what
\* CurveBN.gen_rand() returns if evaluate calls it
Evaluate ==
    /\ poly.stage = "sampled"
    /\ \E index \in Scalars \cup {None}, rand \in gen_rand :
         poly' = [poly EXCEPT !.stage = "evaluated", !.index = index,
                    !.rand = IF Truthy(index) THEN None ELSE rand,
                    !.result = evaluate(poly.obj, index, rand)]
    /\ UNCHANGED <<ceremony, oracle, last, commitment_verified, cross, two_party,
                   wire, pair, the_keyring>>

\* P.to_bytes()
ToBytes ==
    /\ poly.stage = "sampled"
    /\ poly' = [poly EXCEPT !.stage = "encoded",
                             !.result = Polynomial_to_bytes(poly.obj)]
    /\ UNCHANGED <<ceremony, oracle, last, commitment_verified, cross, two_party,
                   wire, pair, the_keyring>>

\* DKGShare(share, index).verify(P)
Verify ==
    /\ poly.stage = "sampled"
    /\ \E share \in Scalars, index \in Scalars :
         poly' = [poly EXCEPT !.stage = "verified",
                    !.share = DKGShare(share, index),
                    !.result = DKGShare_verify(DKGShare(share, index), poly.obj)]
    /\ UNCHANGED <<ceremony, oracle, last, commitment_verified, cross, two_party,
                   wire, pair, the_keyring>>

NextPolynomial ==
    \/ GenRand \/ Construct \/ Commitment \/ CommitmentOfCommitment
    \/ Evaluate \/ ToBytes \/ Verify

SpecPolynomial == Init /\ [][NextPolynomial]_vars

\* ------------------------------------------------------------------ keyring
\* Keyring(keyring_file=..., power_set=...): each argument left out (None),
\* or given; a file name may be the empty string
NewKeyring ==
    /\ the_keyring.stage = "none"
    /\ \E keyring_file \in {None} \cup {Str(x) : x \in 0..MaxFiles},
          power_set \in {None} \cup {CryptoPowerSet(x) : x \in 1..MaxFiles} :
         the_keyring' = [the_keyring EXCEPT !.stage = "constructed",
                           !.args = <<keyring_file, power_set>>,
                           !.obj = Keyring_init(keyring_file, power_set)]
    /\ UNCHANGED <<ceremony, oracle, last, commitment_verified, cross, two_party,
                   wire, poly, pair>>

\* A call on the Keyring: the log keeps the call, the object before and
\* after it, and what it returned or raised
Logged(op, password, out) ==
    /\ the_keyring' = [the_keyring EXCEPT !.obj = out.self,
                          !.log = Append(@, [op |-> op, password |-> password,
                                             before |-> the_keyring.obj,
                                             after |-> out.self,
                                             result |-> out.result])]
    /\ UNCHANGED <<ceremony, oracle, last, commitment_verified, cross, two_party,
                   wire, poly, pair>>

CanCall ==
    /\ the_keyring.stage = "constructed"
    /\ ~IsError(the_keyring.obj)
    /\ Len(the_keyring.log) < MaxCalls

\* keyring.unlock(password)
Unlock ==
    /\ CanCall
    /\ \E password \in {Str(x) : x \in 0..1}, file \in KeyringFiles :
         Logged("unlock", password, Keyring_unlock(the_keyring.obj, password, file))

\* keyring.lock()
Lock ==
    /\ CanCall
    /\ Logged("lock", None, Keyring_lock(the_keyring.obj))

\* keyring.as_power_set
AsPowerSet ==
    /\ CanCall
    /\ Logged("as_power_set", None, as_power_set(the_keyring.obj))

NextKeyring == NewKeyring \/ Unlock \/ Lock \/ AsPowerSet

SpecKeyring == Init /\ [][NextKeyring]_vars

C2_GenuineProofVerifies ==
    (last.op = "verify_pederson_commitment" /\ last.ceremony_id = ceremony.ceremony_id)
        => last.result = True

C2_Witness ==
    /\ last.op = "verify_pederson_commitment"
    /\ last.ceremony_id = ceremony.ceremony_id
    /\ last.result = True
    /\ ceremony.t = 2

\* C3: verify_pederson_commitment under a ceremony id other than the one the
\* proof was generated with raises and never returns True.
C3_ProofBoundToCeremonyId ==
    (last.op = "verify_pederson_commitment" /\ last.ceremony_id # ceremony.ceremony_id)
        => last.result = Raise("Exception")

C3_Witness ==
    /\ last.op = "verify_pederson_commitment"
    /\ last.ceremony_id # ceremony.ceremony_id
    /\ last.result = Raise("Exception")

\* C4: every share gen_pederson_shares returns passes verify_pederson_share
\* against the commitment of the same call.
C4_OwnSharesVerify ==
    /\ ceremony.t > 0 =>
         \A j \in 1..Len(ceremony.shares) :
            verify_pederson_share(ceremony.shares[j], ceremony.poly_comm) = True
    /\ last.op = "verify_pederson_share" => last.result = True

C4_Witness ==
    /\ last.op = "verify_pederson_share"
    /\ last.index = 2
    /\ last.result = True
    /\ ceremony.t = 2
    /\ ceremony.shares[1].index # ceremony.shares[2].index

C6_ReassemblyReturnsSecret ==
    two_party.stage = "reassembled" => two_party.result = two_party.secret

\* C7: once a verification of a ceremony has raised, the ceremony is not run
\* again: gen_pederson_shares is accepted afterwards only under a ceremony id
\* other than the one already used.
C7_RestartOnlyUnderFreshId ==
    [][(IsError(last.result) /\ last'.op = "gen_pederson_shares")
          => last'.ceremony_id # ceremony.ceremony_id]_dkg_vars

\* C8: verify_pederson_share returns True for a share only after
\* verify_pederson_commitment has returned True for the same ceremony.
C8_CommitmentVerifiedFirst ==
    (last.op = "verify_pederson_share" /\ last.result = True) => commitment_verified

C10_ProofAndShareRoundTrip ==
    /\ wire.stage \in {"proof", "proof_back"} =>
         /\ Len(wire.data) = 2 * CURVE_BN_SIZE
         /\ CurveBN_from_bytes(SubSeq(wire.data, 1, CURVE_BN_SIZE)) = wire.obj.sigma
         /\ CurveBN_from_bytes(SubSeq(wire.data, CURVE_BN_SIZE + 1, 2 * CURVE_BN_SIZE))
              = wire.obj.public_comm
    /\ wire.stage \in {"share", "share_back"} =>
         /\ Len(wire.data) = 2 * CURVE_BN_SIZE
         /\ CurveBN_from_bytes(SubSeq(wire.data, 1, CURVE_BN_SIZE)) = wire.obj.share
         /\ CurveBN_from_bytes(SubSeq(wire.data, CURVE_BN_SIZE + 1, 2 * CURVE_BN_SIZE))
              = wire.obj.index
    /\ wire.stage = "proof_back" =>
         /\ wire.back.type = "SchnorrProof"
         /\ SchnorrProof_eq(wire.back, wire.obj)
    /\ wire.stage = "share_back" =>
         /\ wire.back.type = "DKGShare"
         /\ DKGShare_eq(wire.back, wire.obj)

C10_Witness ==
    /\ wire.stage = "share_back"
    /\ wire.obj.share = BN(Order - 1)
    /\ wire.obj.index = BN(1)
    /\ DKGShare_eq(wire.back, wire.obj)

\* C11: SchnorrProof.from_bytes and DKGShare.from_bytes on a buffer whose
\* length is not exactly 2 * CURVE_BN_SIZE, shorter or longer, raise and
\* return no object.
C11_WrongLengthRejected ==
    (wire.stage \in {"proof_buffer", "share_buffer"}
        /\ Len(wire.data) # 2 * CURVE_BN_SIZE)
        => wire.back = Raise("ValueError")

C11_Witness ==
    /\ wire.stage = "proof_buffer"
    /\ Len(wire.data) = 2 * CURVE_BN_SIZE + 1
    /\ OS2IP(SubSeq(wire.data, 1, CURVE_BN_SIZE)) = 1
    /\ OS2IP(SubSeq(wire.data, CURVE_BN_SIZE + 1, 2 * CURVE_BN_SIZE)) = 2
    /\ wire.back = Raise("ValueError")

\* C12: commitment() of a polynomial tagged public (secret = False) fails
\* and returns no polynomial; it succeeds only on polynomials tagged secret.
C12_CommitmentRejectsPublic ==
    (poly.stage = "committed" /\ ~poly.obj.secret) => IsError(poly.result)

\* The ways of picking t of the n shares of the ceremony, in their order
Picks ==
    {p \in [1..ceremony.t -> 1..ceremony.n] :
        \A i \in 1..(ceremony.t - 1) : p[i] < p[i + 1]}

\* C13: any t of the n shares gen_pederson_shares(t, n, ceremony_id) returns
\* give back, by Lagrange interpolation at x = 0, the constant term of the
\* secret polynomial.
C13_AnyTSharesRecoverSecret ==
    ceremony.t > 0 =>
        \A p \in Picks :
            interpolate([i \in 1..ceremony.t |-> ceremony.shares[p[i]]])
                = ceremony.secret_polynomial.coeffs[1]

C15_ZeroIndexRejected ==
    (two_party.stage = "split" /\ two_party.deterministic.index = BN(0))
        => /\ IsError(two_party.non_deterministic)
           /\ two_party.non_deterministic.type # "TwoPartyElement"

C15_Witness ==
    /\ two_party.stage = "split"
    /\ two_party.deterministic = TwoPartyElement(BN(2), BN(0))
    /\ two_party.secret = BN(1)
    /\ two_party.non_deterministic = Raise("Exception")

\* The values hash_to_curvebn can give for data when the ceremony c runs
\* alone: the value the proof of c holds, or any other value for other data
HashAlone(c, data) ==
    IF data = c.hashed.data THEN {c.hashed.out}
    ELSE {BN(x) : x \in 1..(Order - 1)} \ {c.hashed.out}

\* The outcomes a verification of ceremony c has when c runs alone
OutcomesAlone(c, call) ==
    IF call.op = "verify_pederson_commitment"
    THEN {verify_pederson_commitment(c.ceremony.comm_proof, sigma_prime) :
            sigma_prime \in HashAlone(c, verify_pederson_commitment_data(
                c.ceremony.poly_comm, c.ceremony.comm_proof, call.ceremony_id))}
    ELSE {verify_pederson_share(c.ceremony.shares[call.index], c.ceremony.poly_comm)}

C17_VerifySoundForWitness ==
    last.op = "SchnorrProof.verify" =>
        LET genuine == Mul(ceremony.secret_polynomial.coeffs[1], get_generator_from_curve)
        IN  /\ last.result = True => last.witness = genuine
            /\ last.witness # genuine => last.result = Raise("Exception")

C17_Witness ==
    /\ last.op = "SchnorrProof.verify"
    /\ last.witness =
         Mul(BN(Order - 1),
             Mul(ceremony.secret_polynomial.coeffs[1], get_generator_from_curve))
    /\ last.result = Raise("Exception")

\* C18: against the commitment of a secret polynomial f, a share (v, i)
\* passes DKGShare.verify if and only if v = f(i); a share whose value or
\* index was altered to a pair off the polynomial raises.
C18_SharePassesIffOnPolynomial ==
    cross.stage = 4 =>
        LET altered == cross.bad_shares[1]
            f_i == poly_eval(cross.secret_polynomial.coeffs, altered.index)
        IN  /\ altered.share = f_i => cross.result = True
            /\ altered.share # f_i => cross.result = Raise("Exception")

C18_Witness ==
    /\ cross.stage = 4
    /\ cross.t = 2
    /\ cross.bad_shares[1].index = BN(3)
    /\ cross.bad_shares[1].share =
         Add(poly_eval(cross.secret_polynomial.coeffs, BN(3)), BN(1))
    /\ cross.result = Raise("Exception")

\* C19: verify_pederson_commitment and verify_pederson_share have two
\* outcomes, returning True or raising; a failed check is never returned as
\* False or as another value.
C19_TrueOrRaise ==
    last.op \in {"verify_pederson_commitment", "verify_pederson_share"} =>
        /\ last.result = True \/ IsError(last.result)
        /\ last.result.type # "bool" \/ last.result.v = 1

C19_Witness ==
    /\ last.op = "verify_pederson_share"
    /\ last.index = 2
    /\ last.result = Raise("Exception")
    /\ commitment_verified

RecoversSecret(W, D, S) ==
    IF W.index = D.index THEN Add(W.share, D.share) = S
    ELSE W.share = Add(S, Mul(Mul(Sub(D.share, S), Invert(D.index)), W.index))

C21_SplitNeverExposesInputs ==
    (two_party.stage = "split" /\ ~IsError(two_party.non_deterministic))
        => /\ two_party.non_deterministic.share # two_party.secret
           /\ two_party.non_deterministic.share # two_party.deterministic.share
           /\ two_party.non_deterministic.index # two_party.deterministic.index

\* C22: with both shares of a split multiplied by a scalar r (indices
\* unchanged) the reassembly gives S * r, and the reassembly of the scaled
\* dealer's element with an element still holding the unscaled share (Z, X)
\* does not give S * r.
C22_ComputationOnShares ==
    two_party.stage = "computed" =>
        /\ two_party.result = Mul(two_party.secret, two_party.rand_scalar)
        /\ two_party.mixed # Mul(two_party.secret, two_party.rand_scalar)

ScalarCoeffs(P) == \A i \in 1..Len(P.coeffs) : IsBN(P.coeffs[i])
PointCoeffs(P) == \A i \in 1..Len(P.coeffs) : IsPT(P.coeffs[i])

\* C24: commitment() of a secret polynomial returns a new public-tagged
\* polynomial of the same length whose i-th coefficient is a_i * G, and
\* leaves the polynomial's coefficients and tag as they were; commitment,
\* evaluate, to_bytes and DKGShare.verify never change the tag (or the
\* coefficients) of the polynomial they are given.
C24_CommitmentIsNewPublicPolynomial ==
    [][/\ (poly.stage = "sampled" /\ poly'.stage # "sampled")
            => /\ poly'.stage \in {"committed", "evaluated", "encoded", "verified"}
               /\ poly'.obj.secret = poly.obj.secret
               /\ poly'.obj.coeffs = poly.obj.coeffs
       /\ (poly.stage = "sampled" /\ poly'.stage = "committed"
             /\ poly.obj.secret /\ ScalarCoeffs(poly.obj))
            => /\ poly'.result.type = "Polynomial"
               /\ poly'.result.secret = FALSE
               /\ Len(poly'.result.coeffs) = Len(poly.obj.coeffs)
               /\ \A i \in 1..Len(poly.obj.coeffs) :
                    poly'.result.coeffs[i] =
                        Mul(poly.obj.coeffs[i], get_generator_from_curve)
       /\ (poly.stage = "committed" /\ poly'.stage = "committed")
            => /\ poly'.obj = poly.result
               /\ poly'.obj.secret = FALSE
      ]_vars

C24_Witness ==
    /\ poly.stage = "committed"
    /\ poly.obj.secret
    /\ Len(poly.obj.coeffs) = MaxT
    /\ ScalarCoeffs(poly.obj)
    /\ poly.result.type = "Polynomial"
    /\ ~poly.result.secret
    /\ PointCoeffs(poly.result)

\* C25: evaluate draws a random index only when the index is omitted; for
\* every index supplied, zero included, the returned DKGShare carries that
\* index and the value of the polynomial at it, so DKGShare.verify compares
\* the share with the commitment evaluated at the share's own index.
C25_EvaluateKeepsSuppliedIndex ==
    /\ (poly.stage = "evaluated" /\ ScalarCoeffs(poly.obj) /\ Len(poly.obj.coeffs) > 0)
         => /\ poly.result.type = "DKGShare"
            /\ poly.index # None
                 => /\ poly.rand = None
                    /\ poly.result.index = poly.index
                    /\ poly.result.share = poly_eval(poly.obj.coeffs, poly.index)
            /\ poly.index = None
                 => /\ poly.rand \in gen_rand
                    /\ poly.result.index = poly.rand
                    /\ poly.result.share = poly_eval(poly.obj.coeffs, poly.rand)
    /\ (poly.stage = "verified" /\ PointCoeffs(poly.obj) /\ Len(poly.obj.coeffs) > 0)
         => /\ poly.result \in {True, Raise("Exception")}
            /\ (poly.result = True)
                 <=> poly_eval(poly.obj.coeffs, poly.share.index)
                       = Mul(poly.share.share, get_generator_from_curve)

C25_Witness ==
    /\ poly.stage = "evaluated"
    /\ poly.index = BN(0)
    /\ ScalarCoeffs(poly.obj)
    /\ Len(poly.obj.coeffs) = MaxT
    /\ poly.result = DKGShare(poly.obj.coeffs[1], BN(0))

\* C26: unlock(password) on a locked Keyring, one constructed from a
\* keyring_file, completes without error, caches the derived key and leaves
\* is_unlocked true; unlock on an unlocked Keyring raises Keyring.Unlocked
\* and changes nothing.
C26_UnlockUnlocks ==
    \A i \in 1..Len(the_keyring.log) :
        LET call == the_keyring.log[i]
        IN  call.op = "unlock" =>
                IF ~call.before.is_unlocked
                THEN /\ ~IsError(call.result)
                     /\ call.after.derived_key # None
                     /\ call.after.is_unlocked
                ELSE /\ call.result = Raise("Unlocked")
                     /\ call.after = call.before

\* The Keyring as the constructor left it, or the error it raised
KeyringAtStart ==
    IF the_keyring.log = <<>> THEN the_keyring.obj ELSE the_keyring.log[1].before

C28_OnlyCoefficientZeroIsProved ==
    (last.op = "verify_pederson_commitment" /\ ceremony.t > 0)
        => /\ last.received # ceremony.poly_comm
           /\ last.received.coeffs[1] = ceremony.poly_comm.coeffs[1]
           /\ last.result = True

C28_Witness ==
    /\ last.op = "verify_pederson_commitment"
    /\ ceremony.t = MaxT
    /\ Len(last.received.coeffs) = MaxT
    /\ last.received.coeffs[MaxT] # ceremony.poly_comm.coeffs[MaxT]
    /\ last.result = True

\* C29: the n shares returned by one call of gen_pederson_shares have
\* pairwise distinct and nonzero indices, so no two recipients receive the
\* same evaluation point and no share equals the secret constant term.
C29_IndicesDistinctAndNonzero ==
    ceremony.t > 0 =>
        /\ \A i, j \in 1..Len(ceremony.shares) :
             i # j => ceremony.shares[i].index # ceremony.shares[j].index
        /\ \A i \in 1..Len(ceremony.shares) :
             /\ ceremony.shares[i].index # BN(0)
             /\ ceremony.shares[i].share # ceremony.secret_polynomial.coeffs[1]

\* The chosen shares Z with which split_curvebn(S, Z, X) returns the element
\* E when it draws the index of E
ConsistentShares(E, S, X) ==
    {Z \in Scalars : split_curvebn(S, Z, X, E.index) = E}

\* C30: one element of a split reveals nothing about the secret: for the
\* element that split_curvebn returned and the chosen index X, every
\* candidate secret is consistent with it for exactly one chosen share Z, so
\* runs with different secrets can return the same element; and the dealer's
\* element (Z, X) goes with every secret.
C30_SingleElementHidesSecret ==
    (two_party.stage = "split" /\ ~IsError(two_party.non_deterministic))
        => /\ two_party.non_deterministic.index # BN(0)
           /\ \A S \in Scalars :
                /\ Cardinality(ConsistentShares(two_party.non_deterministic, S,
                                                two_party.deterministic.index)) = 1
                /\ \A x_rand_index \in gen_rand :
                     split_curvebn(S, two_party.deterministic.share,
                                   two_party.deterministic.index,
                                   x_rand_index).type = "TwoPartyElement"

C30_Witness ==
    /\ two_party.stage = "split"
    /\ ~IsError(two_party.non_deterministic)
    /\ two_party.non_deterministic.index # two_party.deterministic.index
    /\ \E S \in Scalars \ {two_party.secret} :
         \E Z \in ConsistentShares(two_party.non_deterministic, S,
                                   two_party.deterministic.index) :
            Z # two_party.deterministic.share
====
